---- MODULE Spec2Model ----
\* Model of src/main.py (video hard-subtitle extractor): the OCR worker thread
\* (OCRWorker.run / write_srt / stop), the SRT time formatter ms_to_srt_time,
\* and the MainWindow handlers that start, cancel and observe the worker.
\*
\* Text is modelled as a sequence of one-character strings, so that joining,
\* stripping, splitting and zero-padding are computed character by character.
\* Timestamps are integer milliseconds. One extraction per session is
\* modelled; an output file left by an earlier session is an initial state.
EXTENDS Integers, Sequences, FiniteSets, TLC

VARIABLES
    \* ---- MainWindow ----
    video_path,     \* self.video_path ("" until a video is opened)
    le_save_path,   \* text of the save-path line edit
    btn_run,        \* start button enabled
    btn_add,        \* add-video button enabled
    btn_cancel,     \* cancel button enabled
    pbar,           \* progress bar value
    lbl_status,     \* status label
    \* ---- OCRWorker ----
    pc,             \* position of run(): "none" before the thread exists
    is_running,     \* self.is_running, the cancellation flag
    roi,            \* self.roi = (x, y, w, h)
    output_path,    \* self.output_path
    cap_open,       \* the cv2.VideoCapture handle is open
    total_frames,   \* CAP_PROP_FRAME_COUNT as reported by the source
    pos_msec,       \* CAP_PROP_POS_MSEC of the frame last read
    frame_idx,
    processed_count,
    subtitles,      \* list of closed segments
    current_sub,    \* the segment being recorded (text <<>> : none)
    w_i,            \* write_srt: position in subs (for s in subs)
    w_idx,          \* write_srt: idx
    \* ---- environment ----
    file,           \* the output file on disk
    signals,        \* queued signals from the worker to the UI thread
    \* ---- history ----
    obs,            \* observations handed to the segment builder
    emitted,        \* kinds of all signals emitted so far, in order
    \* ---- formatter harness ----
    fmt_ms,         \* argument of ms_to_srt_time
    fmt_out,        \* its result (<<>> before the call)
    \* ---- extractor harness ----
    ocr_in,         \* a result of the OCR engine
    ocr_out         \* the text extracted from it (called = FALSE before)

ui_vars == <<video_path, le_save_path, btn_run, btn_add, btn_cancel, pbar, lbl_status>>
worker_vars == <<pc, is_running, roi, output_path, cap_open, total_frames, pos_msec,
                 frame_idx, processed_count, subtitles, current_sub, w_i, w_idx>>
env_vars == <<file, signals, obs, emitted>>
fmt_vars == <<fmt_ms, fmt_out, ocr_in, ocr_out>>
vars == <<ui_vars, worker_vars, env_vars, fmt_vars>>

\* ------------------------------------------------------------------
\* Bounds of the model and constants of the program
\* ------------------------------------------------------------------
MaxFrames == 16          \* frames a source delivers before end of stream
skip_frames == 5         \* main.py:62
MinDurationMs == 100     \* main.py:173
ThresholdPct == 60       \* main.py:42, threshold=0.6 in hundredths
MinRoiSide == 10         \* main.py:492

Max(a, b) == IF a > b THEN a ELSE b
Min(a, b) == IF a < b THEN a ELSE b

\* ------------------------------------------------------------------
\* Character-level helpers (Python str operations)
\* ------------------------------------------------------------------
Digits == <<"0", "1", "2", "3", "4", "5", "6", "7", "8", "9">>

\* "%d" % n for n >= 0
RECURSIVE Dec(_)
Dec(n) == IF n < 10 THEN <<Digits[n + 1]>> ELSE Dec(n \div 10) \o <<Digits[(n % 10) + 1]>>

\* "%0wd" % n : left-padded with zeros to at least w characters
RECURSIVE ZPad(_, _)
ZPad(s, w) == IF Len(s) >= w THEN s ELSE ZPad(<<"0">> \o s, w)

Contains(s, c) == \E i \in 1..Len(s) : s[i] = c

\* s.split(c) for a string holding c exactly once: <<before, after>>
SplitAt(s, c) ==
    LET i == CHOOSE k \in 1..Len(s) : s[k] = c
    IN  <<SubSeq(s, 1, i - 1), SubSeq(s, i + 1, Len(s))>>

\* s[:n]
Prefix(s, n) == SubSeq(s, 1, Min(n, Len(s)))

\* str.strip() for the space character
RECURSIVE LStrip(_)
LStrip(s) == IF s # <<>> /\ Head(s) = " " THEN LStrip(Tail(s)) ELSE s
RECURSIVE RStrip(_)
RStrip(s) == IF s # <<>> /\ s[Len(s)] = " " THEN RStrip(SubSeq(s, 1, Len(s) - 1)) ELSE s
Strip(s) == RStrip(LStrip(s))

\* " ".join(texts)
RECURSIVE Join(_)
Join(texts) ==
    IF texts = <<>> THEN <<>>
    ELSE IF Len(texts) = 1 THEN texts[1]
    ELSE texts[1] \o <<" ">> \o Join(Tail(texts))

\* ------------------------------------------------------------------
\* ms_to_srt_time (main.py:22-32)
\* ------------------------------------------------------------------
\* str(datetime.timedelta(seconds=ms/1000)) for an integer ms >= 0:
\* "[D day[s], ]H:MM:SS[.UUUUUU]", hours not padded, the fraction present
\* only when the microseconds are non-zero.
TimedeltaStr(ms) ==
    LET micro == (ms % 1000) * 1000
        secs  == ms \div 1000
        days  == secs \div 86400
        rem   == secs % 86400
        hh    == rem \div 3600
        mm    == (rem % 3600) \div 60
        ss    == rem % 60
        dpart == IF days = 0 THEN <<>>
                 ELSE Dec(days) \o <<" ", "d", "a", "y">>
                      \o (IF days # 1 THEN <<"s">> ELSE <<>>) \o <<",", " ">>
        hms   == Dec(hh) \o <<":">> \o ZPad(Dec(mm), 2) \o <<":">> \o ZPad(Dec(ss), 2)
        frac  == IF micro = 0 THEN <<>> ELSE <<".">> \o ZPad(Dec(micro), 6)
    IN  dpart \o hms \o frac

ms_to_srt_time(ms) ==
    LET fin == TimedeltaStr(ms)
    IN  IF Contains(fin, ".")
        THEN LET parts == SplitAt(fin, ".")
             IN  parts[1] \o <<",">> \o Prefix(parts[2], 3)
        ELSE fin \o <<",", "0", "0", "0">>

\* ------------------------------------------------------------------
\* Inputs delivered by the external collaborators
\* ------------------------------------------------------------------
TextA == <<"A">>
TextB == <<"B">>
NoText == <<>>

\* One detection of the OCR engine: (box, text, score). The score is a number
\* (in hundredths), a non-numeric string, or absent.
Det(t, k, v) == [text |-> t, kind |-> k, val |-> v]

\* Results of ocr_engine(roi_img); <<>> stands for None / no detection.
OcrResults ==
    { <<>>,
      <<Det(TextA, "num", 90)>>,
      <<Det(TextB, "num", 61)>>,
      <<Det(TextA, "num", 60)>>,
      <<Det(TextA, "str", 0)>>,
      <<Det(TextB, "missing", 0)>>,
      <<Det(TextA, "num", 90), Det(TextB, "num", 30)>>,
      <<Det(<<" ">>, "num", 99), Det(TextB, "num", 90)>> }

\* frame.shape[:2] as (w_vid, h_vid)
FrameSizes == { [w |-> 32, h |-> 16], [w |-> 16, h |-> 16] }

\* VideoLabel.get_real_roi() values the user can have set
Rois == { [x |-> 20, y |-> 4, w |-> 10, h |-> 10],
          [x |-> 0,  y |-> 0, w |-> 5,  h |-> 10] }

\* Milliseconds between frame idx - 1 and frame idx of the source: a steady
\* 20 ms, except that a frame on the sampling grid may come 1 ms early
FrameDeltas(idx) == IF idx % skip_frames = 0 THEN {19, 20} ELSE {20}

\* CAP_PROP_FRAME_COUNT values a container may report
ReportedCounts == {0, 6}

\* Save paths the line edit can hold
OutPaths == {"video.srt"}

NoFile == [exists |-> FALSE, blocks |-> <<>>]
OldBlock == [idx |-> 1, start |-> ms_to_srt_time(0), end |-> ms_to_srt_time(5000),
             text |-> <<"o", "l", "d">>]
OldFile == [exists |-> TRUE, blocks |-> <<OldBlock>>]

\* ------------------------------------------------------------------
\* OCRWorker.run, pure parts
\* ------------------------------------------------------------------
\* main.py:85-88 : the clamped rectangle is non-empty
RegionOk(r, size) ==
    LET x1 == Max(0, r.x)
        y1 == Max(0, r.y)
        x2 == Min(size.w, r.x + r.w)
        y2 == Min(size.h, r.y + r.h)
    IN  x2 > x1 /\ y2 > y1

\* main.py:101-104 : float(line[2]) with fallback 0.0, in hundredths
ScoreOf(line) == IF line.kind = "num" THEN line.val ELSE 0

\* AboveThreshold with the boundary included
AboveThreshold_Inclusive(line) == ScoreOf(line) >= ThresholdPct

\* main.py:105 : the line survives the confidence threshold
AboveThreshold(line) == ScoreOf(line) > ThresholdPct

\* main.py:95-107
RECURSIVE KeptTexts(_)
KeptTexts(result) ==
    IF result = <<>> THEN <<>>
    ELSE (IF AboveThreshold(Head(result)) THEN <<Head(result).text>> ELSE <<>>)
         \o KeptTexts(Tail(result))

DetectedText(result) == IF result = <<>> THEN NoText ELSE Strip(Join(KeptTexts(result)))

EmptySub == [text |-> NoText, start |-> 0, end |-> 0]

\* BuildStep with the extension of the open segment lost
BuildStep_NoExtend(cur, subs, t, s) ==
    IF s # NoText
    THEN IF cur.text = s
         THEN [cur |-> cur, subs |-> subs]
         ELSE [cur  |-> [text |-> s, start |-> t, end |-> t],
               subs |-> IF cur.text # NoText THEN Append(subs, cur) ELSE subs]
    ELSE IF cur.text # NoText
         THEN [cur |-> EmptySub, subs |-> Append(subs, cur)]
         ELSE [cur |-> cur, subs |-> subs]

\* BuildStep with the previous segment not saved when the text changes
BuildStep_DropOnChange(cur, subs, t, s) ==
    IF s # NoText
    THEN IF cur.text = s
         THEN [cur |-> [cur EXCEPT !.end = t], subs |-> subs]
         ELSE [cur |-> [text |-> s, start |-> t, end |-> t], subs |-> subs]
    ELSE IF cur.text # NoText
         THEN [cur |-> EmptySub, subs |-> Append(subs, cur)]
         ELSE [cur |-> cur, subs |-> subs]

\* BuildStep with a closed segment put at the front of the list
BuildStep_Prepend(cur, subs, t, s) ==
    IF s # NoText
    THEN IF cur.text = s
         THEN [cur |-> [cur EXCEPT !.end = t], subs |-> subs]
         ELSE [cur  |-> [text |-> s, start |-> t, end |-> t],
               subs |-> IF cur.text # NoText THEN <<cur>> \o subs ELSE subs]
    ELSE IF cur.text # NoText
         THEN [cur |-> EmptySub, subs |-> <<cur>> \o subs]
         ELSE [cur |-> cur, subs |-> subs]

\* BuildStep with the closing of a segment not guarded by "a segment is open"
BuildStep_AppendEmpty(cur, subs, t, s) ==
    IF s # NoText
    THEN IF cur.text = s
         THEN [cur |-> [cur EXCEPT !.end = t], subs |-> subs]
         ELSE [cur  |-> [text |-> s, start |-> t, end |-> t],
               subs |-> Append(subs, cur)]
    ELSE [cur |-> EmptySub, subs |-> Append(subs, cur)]

\* BuildStep with the segment appended when it is opened and extended in
\* place afterwards, so that the list aliases the open segment
BuildStep_AppendOnOpen(cur, subs, t, s) ==
    IF s # NoText
    THEN IF cur.text = s
         THEN [cur  |-> [cur EXCEPT !.end = t],
               subs |-> [subs EXCEPT ![Len(subs)] = [cur EXCEPT !.end = t]]]
         ELSE [cur  |-> [text |-> s, start |-> t, end |-> t],
               subs |-> Append(subs, [text |-> s, start |-> t, end |-> t])]
    ELSE [cur |-> EmptySub, subs |-> subs]

\* main.py:113-126 : one step of the segment builder on observation (t, s);
\* yields the new open segment and the new closed list
BuildStep(cur, subs, t, s) ==
    IF s # NoText
    THEN IF cur.text = s
         THEN [cur |-> [cur EXCEPT !.end = t], subs |-> subs]
         ELSE [cur  |-> [text |-> s, start |-> t, end |-> t],
               subs |-> IF cur.text # NoText THEN Append(subs, cur) ELSE subs]
    ELSE IF cur.text # NoText
         THEN [cur |-> EmptySub, subs |-> Append(subs, cur)]
         ELSE [cur |-> cur, subs |-> subs]

\* FlushSubs with the open segment forgotten at the end of the loop
FlushSubs_Skip(cur, subs) == subs

\* main.py:150-151 : the trailing flush
FlushSubs(cur, subs) == IF cur.text # NoText THEN Append(subs, cur) ELSE subs

\* main.py:144 : int((frame_idx / total_frames) * 100), total_frames # 0
Percent(fi, tf) == (fi * 100) \div tf

\* main.py:133,136 : remain_steps
RemainSteps(tf, done) == (tf \div skip_frames) - done

\* KeepSegment with the boundary excluded
KeepSegment_Strict(s) == s.end - s.start > MinDurationMs

\* main.py:173 : the segment passes the duration filter
KeepSegment(s) == ~(s.end - s.start < MinDurationMs)

\* IdxAfter counting the dropped segments too
IdxAfter_Always(idx, s) == idx + 1

\* main.py:173-174,181 : idx after the iteration for s ("continue" skips idx += 1)
IdxAfter(idx, s) == IF KeepSegment(s) THEN idx + 1 ELSE idx

\* main.py:176-180 : the block written for segment s under index idx
Block(idx, s) == [idx |-> idx, start |-> ms_to_srt_time(s.start),
                  end |-> ms_to_srt_time(s.end), text |-> s.text]

Signal(kind, val, remain) == [kind |-> kind, val |-> val, remain |-> remain]

\* QThread.isRunning()
isRunning == pc \notin {"none", "done"}

\* ------------------------------------------------------------------
\* Initial state (MainWindow.__init__, init_ui: main.py:309-398)
\* ------------------------------------------------------------------
Init ==
    /\ video_path = ""
    /\ le_save_path = ""
    /\ btn_run = FALSE
    /\ btn_add = TRUE
    /\ btn_cancel = FALSE
    /\ pbar = 0
    /\ lbl_status = "ready"
    /\ pc = "none"
    /\ is_running = TRUE
    /\ roi = [x |-> 0, y |-> 0, w |-> 0, h |-> 0]
    /\ output_path = ""
    /\ cap_open = FALSE
    /\ total_frames = 0
    /\ pos_msec = 0
    /\ frame_idx = 0
    /\ processed_count = 0
    /\ subtitles = <<>>
    /\ current_sub = EmptySub
    /\ w_i = 1
    /\ w_idx = 1
    /\ file \in {NoFile, OldFile}
    /\ signals = <<>>
    /\ obs = <<>>
    /\ emitted = <<>>
    /\ fmt_ms = 0
    /\ fmt_out = <<>>
    /\ ocr_in = <<>>
    /\ ocr_out = [called |-> FALSE, text |-> <<>>]

\* self.<x>_signal.emit(...) : queued to the UI thread
Emit(sig) ==
    /\ signals' = Append(signals, sig)
    /\ emitted' = Append(emitted, sig.kind)

\* RaiseInRun with the exception swallowed: run() returns without a signal
RaiseInRun_Silent ==
    /\ pc' = "done"
    /\ signals' = signals
    /\ emitted' = emitted

\* except Exception (main.py:163-166): the failure signal, then run() returns
RaiseInRun ==
    /\ pc' = "done"
    /\ Emit(Signal("error", 0, 0))

\* ------------------------------------------------------------------
\* MainWindow handlers
\* ------------------------------------------------------------------
\* main.py:402-417
OpenVideo ==
    /\ btn_add
    /\ \E out \in OutPaths : le_save_path' = out
    /\ video_path' = "video.mp4"
    /\ btn_run' = TRUE
    /\ lbl_status' = "loaded"
    /\ UNCHANGED <<btn_add, btn_cancel, pbar, worker_vars, env_vars, fmt_vars>>

\* main.py:486-508 ; the click needs the start button enabled. One extraction
\* per session: the click comes while no worker thread has been created yet.
StartOcr ==
    /\ btn_run
    /\ pc = "none"
    /\ \E r \in Rois :
        IF video_path = "" THEN UNCHANGED vars
        ELSE IF r.w < MinRoiSide \/ r.h < MinRoiSide
        THEN /\ lbl_status' = "warning"
             /\ UNCHANGED <<video_path, le_save_path, btn_run, btn_add, btn_cancel, pbar,
                            worker_vars, env_vars, fmt_vars>>
        ELSE /\ btn_run' = FALSE
             /\ btn_add' = FALSE
             /\ btn_cancel' = TRUE
             /\ pbar' = 0
             /\ lbl_status' = "initializing"
             /\ roi' = r
             /\ output_path' = le_save_path
             /\ is_running' = TRUE
             /\ pc' = "start"
             /\ UNCHANGED <<video_path, le_save_path, cap_open, total_frames, pos_msec,
                            frame_idx, processed_count, subtitles, current_sub, w_i, w_idx,
                            env_vars, fmt_vars>>

\* main.py:510-514 with OCRWorker.stop (main.py:183-184)
CancelOcr ==
    /\ btn_cancel
    /\ IF isRunning
       THEN /\ is_running' = FALSE
            /\ lbl_status' = "cancelling"
            /\ btn_cancel' = FALSE
            /\ UNCHANGED <<video_path, le_save_path, btn_run, btn_add, pbar, pc, roi,
                           output_path, cap_open, total_frames, pos_msec, frame_idx,
                           processed_count, subtitles, current_sub, w_i, w_idx,
                           env_vars, fmt_vars>>
       ELSE UNCHANGED vars

\* main.py:531-534
reset_ui ==
    /\ btn_run' = TRUE
    /\ btn_add' = TRUE
    /\ btn_cancel' = FALSE

\* main.py:516-518
UpdateProgress ==
    /\ signals # <<>>
    /\ Head(signals).kind = "progress"
    /\ pbar' = Head(signals).val
    /\ lbl_status' = "remaining"
    /\ signals' = Tail(signals)
    /\ UNCHANGED <<video_path, le_save_path, btn_run, btn_add, btn_cancel, worker_vars,
                   file, obs, emitted, fmt_vars>>

\* main.py:520-524
OcrFinished ==
    /\ signals # <<>>
    /\ Head(signals).kind = "finished"
    /\ pbar' = 100
    /\ lbl_status' = "finished"
    /\ reset_ui
    /\ signals' = Tail(signals)
    /\ UNCHANGED <<video_path, le_save_path, worker_vars, file, obs, emitted, fmt_vars>>

\* main.py:526-529
OcrError ==
    /\ signals # <<>>
    /\ Head(signals).kind = "error"
    /\ lbl_status' = "error"
    /\ reset_ui
    /\ signals' = Tail(signals)
    /\ UNCHANGED <<video_path, le_save_path, pbar, worker_vars, file, obs, emitted, fmt_vars>>

\* ------------------------------------------------------------------
\* OCRWorker.run, step by step
\* ------------------------------------------------------------------
\* main.py:51-74 : engine construction, opening the capture, local state
RunStart ==
    /\ pc = "start"
    /\ \/ \* RapidOCR() raises
          /\ RaiseInRun
          /\ UNCHANGED <<cap_open, total_frames>>
       \/ /\ cap_open' = TRUE
          /\ \E n \in ReportedCounts : total_frames' = n
          /\ pc' = "while"
          /\ UNCHANGED <<signals, emitted>>
    /\ pos_msec' = 0
    /\ frame_idx' = 0
    /\ processed_count' = 0
    /\ subtitles' = <<>>
    /\ current_sub' = EmptySub
    /\ UNCHANGED <<ui_vars, is_running, roi, output_path, w_i, w_idx, file, obs, fmt_vars>>

\* main.py:76 : while self.is_running
LoopTest ==
    /\ pc = "while"
    /\ pc' = IF is_running THEN "read" ELSE "after"
    /\ UNCHANGED <<ui_vars, is_running, roi, output_path, cap_open, total_frames, pos_msec,
                   frame_idx, processed_count, subtitles, current_sub, w_i, w_idx,
                   env_vars, fmt_vars>>

\* main.py:77-82,147 : cap.read(); a frame that is not sampled only counts
ReadFrame ==
    /\ pc = "read"
    /\ \/ \* ret is False: end of stream
          /\ pc' = "after"
          /\ UNCHANGED <<pos_msec, frame_idx>>
       \/ /\ frame_idx < MaxFrames
          /\ \E d \in FrameDeltas(frame_idx) :
                pos_msec' = IF frame_idx = 0 THEN 0 ELSE pos_msec + d
          /\ IF frame_idx % skip_frames = 0
             THEN pc' = "sample" /\ UNCHANGED frame_idx
             ELSE pc' = "while" /\ frame_idx' = frame_idx + 1
    /\ UNCHANGED <<ui_vars, is_running, roi, output_path, cap_open, total_frames,
                   processed_count, subtitles, current_sub, w_i, w_idx, env_vars, fmt_vars>>

\* main.py:84-147 : crop, OCR, segment builder, progress report
Sample ==
    /\ pc = "sample"
    /\ \E size \in FrameSizes, result \in OcrResults, ocr_raises \in BOOLEAN :
        LET region == RegionOk(roi, size)
            text   == DetectedText(result)
            built  == IF region
                      THEN BuildStep(current_sub, subtitles, pos_msec, text)
                      ELSE [cur |-> current_sub, subs |-> subtitles]
        IN  IF region /\ ocr_raises
            THEN \* ocr_engine(roi_img) raises
                 /\ RaiseInRun
                 /\ UNCHANGED <<frame_idx, processed_count, subtitles, current_sub, obs>>
            ELSE /\ current_sub' = built.cur
                 /\ subtitles' = built.subs
                 /\ obs' = Append(obs, [t |-> pos_msec, region |-> region,
                                        text |-> IF region THEN text ELSE NoText])
                 /\ processed_count' = processed_count + 1
                 /\ IF total_frames = 0
                    THEN \* ZeroDivisionError at main.py:144
                         /\ RaiseInRun
                         /\ UNCHANGED frame_idx
                    ELSE /\ Emit(Signal("progress", Percent(frame_idx, total_frames),
                                        RemainSteps(total_frames, processed_count + 1)))
                         /\ frame_idx' = frame_idx + 1
                         /\ pc' = "while"
    /\ UNCHANGED <<ui_vars, is_running, roi, output_path, cap_open, total_frames, pos_msec,
                   w_i, w_idx, file, fmt_vars>>

\* AfterLoop with cap.release() left out
AfterLoop_NoRelease ==
    /\ pc = "after"
    /\ subtitles' = FlushSubs(current_sub, subtitles)
    /\ cap_open' = cap_open
    /\ pc' = "check"
    /\ UNCHANGED <<ui_vars, is_running, roi, output_path, total_frames, pos_msec, frame_idx,
                   processed_count, current_sub, w_i, w_idx, env_vars, fmt_vars>>

\* main.py:149-153 : trailing flush and cap.release()
AfterLoop ==
    /\ pc = "after"
    /\ subtitles' = FlushSubs(current_sub, subtitles)
    /\ cap_open' = FALSE
    /\ pc' = "check"
    /\ UNCHANGED <<ui_vars, is_running, roi, output_path, total_frames, pos_msec, frame_idx,
                   processed_count, current_sub, w_i, w_idx, env_vars, fmt_vars>>

\* main.py:156-157 : if not self.is_running: return
CheckCancelled ==
    /\ pc = "check"
    /\ pc' = IF is_running THEN "open" ELSE "done"
    /\ UNCHANGED <<ui_vars, is_running, roi, output_path, cap_open, total_frames, pos_msec,
                   frame_idx, processed_count, subtitles, current_sub, w_i, w_idx,
                   env_vars, fmt_vars>>

\* main.py:169-170 : open(self.output_path, 'w') creates or truncates the file
WriteOpen ==
    /\ pc = "open"
    /\ \/ /\ file' = [exists |-> TRUE, blocks |-> <<>>]
          /\ w_i' = 1
          /\ w_idx' = 1
          /\ pc' = "write"
          /\ UNCHANGED <<signals, emitted>>
       \/ \* open raises (the path cannot be written): nothing is created
          /\ RaiseInRun
          /\ UNCHANGED <<file, w_i, w_idx>>
    /\ UNCHANGED <<ui_vars, is_running, roi, output_path, cap_open, total_frames, pos_msec,
                   frame_idx, processed_count, subtitles, current_sub, obs, fmt_vars>>

\* main.py:171-181 : one iteration of "for s in subs"
WriteSegment ==
    /\ pc = "write"
    /\ w_i <= Len(subtitles)
    /\ LET s == subtitles[w_i]
       IN  IF ~KeepSegment(s)
           THEN /\ w_i' = w_i + 1
                /\ w_idx' = IdxAfter(w_idx, s)
                /\ UNCHANGED <<pc, file, signals, emitted>>
           ELSE \/ /\ file' = [file EXCEPT !.blocks = Append(@, Block(w_idx, s))]
                   /\ w_idx' = IdxAfter(w_idx, s)
                   /\ w_i' = w_i + 1
                   /\ UNCHANGED <<pc, signals, emitted>>
                \/ \* f.write raises (I/O error): the blocks written so far stay
                   /\ RaiseInRun
                   /\ UNCHANGED <<file, w_i, w_idx>>
    /\ UNCHANGED <<ui_vars, is_running, roi, output_path, cap_open, total_frames, pos_msec,
                   frame_idx, processed_count, subtitles, current_sub, obs, fmt_vars>>

\* main.py:161 : the loop of write_srt is over, the file is closed
EmitFinished ==
    /\ pc = "write"
    /\ w_i > Len(subtitles)
    /\ Emit(Signal("finished", 0, 0))
    /\ pc' = "done"
    /\ UNCHANGED <<ui_vars, is_running, roi, output_path, cap_open, total_frames, pos_msec,
                   frame_idx, processed_count, subtitles, current_sub, w_i, w_idx,
                   file, obs, fmt_vars>>

Next ==
    \/ OpenVideo
    \/ StartOcr
    \/ CancelOcr
    \/ UpdateProgress
    \/ OcrFinished
    \/ OcrError
    \/ RunStart
    \/ LoopTest
    \/ ReadFrame
    \/ Sample
    \/ AfterLoop
    \/ CheckCancelled
    \/ WriteOpen
    \/ WriteSegment
    \/ EmitFinished

Spec == Init /\ [][Next]_vars

\* The steps of the worker thread (QThread.start() runs OCRWorker.run on a
\* thread of its own, which the operating system keeps scheduling)
WorkerNext ==
    \/ RunStart
    \/ LoopTest
    \/ ReadFrame
    \/ Sample
    \/ AfterLoop
    \/ CheckCancelled
    \/ WriteOpen
    \/ WriteSegment
    \/ EmitFinished

FairSpec == Init /\ [][Next]_vars /\ WF_vars(WorkerNext)

\* ------------------------------------------------------------------
\* Formatter harness: ms_to_srt_time applied to inputs of every shape
\* ------------------------------------------------------------------
FmtHours == {0, 1, 9, 10, 23, 24, 25, 48}
FmtMinutes == {0, 1, 59}
FmtSeconds == {0, 1, 59}
FmtMillis == {0, 1, 99, 500, 999}
FmtInputs == { ((h * 60 + m) * 60 + sec) * 1000 + f :
               h \in FmtHours, m \in FmtMinutes, sec \in FmtSeconds, f \in FmtMillis }

FmtInit ==
    /\ video_path = "" /\ le_save_path = ""
    /\ btn_run = FALSE /\ btn_add = TRUE /\ btn_cancel = FALSE
    /\ pbar = 0 /\ lbl_status = "ready"
    /\ pc = "none" /\ is_running = TRUE
    /\ roi = [x |-> 0, y |-> 0, w |-> 0, h |-> 0]
    /\ output_path = "" /\ cap_open = FALSE /\ total_frames = 0 /\ pos_msec = 0
    /\ frame_idx = 0 /\ processed_count = 0 /\ subtitles = <<>>
    /\ current_sub = EmptySub /\ w_i = 1 /\ w_idx = 1
    /\ file = NoFile /\ signals = <<>> /\ obs = <<>> /\ emitted = <<>>
    /\ fmt_ms \in FmtInputs
    /\ fmt_out = <<>>
    /\ ocr_in = <<>>
    /\ ocr_out = [called |-> FALSE, text |-> <<>>]

FormatCall ==
    /\ fmt_out = <<>>
    /\ fmt_out' = ms_to_srt_time(fmt_ms)
    /\ UNCHANGED <<ui_vars, worker_vars, env_vars, fmt_ms, ocr_in, ocr_out>>

FmtNext == FormatCall

FmtSpec == FmtInit /\ [][FmtNext]_vars

\* ------------------------------------------------------------------
\* Vocabulary of the properties
\* ------------------------------------------------------------------
HasEmitted(kind) == \E i \in 1..Len(emitted) : emitted[i] = kind

\* The run has not created, truncated or written the output file
FileUntouched == file \in {NoFile, OldFile}

\* The UI is idle: start and add-video enabled, cancel disabled
UIIdle == btn_run /\ btn_add /\ ~btn_cancel

\* run() is past the trailing flush (main.py:150-151)
Flushed == pc \in {"check", "open", "write"} \/ (pc = "done" /\ ~HasEmitted("error"))

\* run() is inside the frame loop
InLoop == pc \in {"while", "read", "sample", "after"}

ObsHasRegion(o) == o.region

\* The observation stream: the samples whose crop was non-empty
Observations == SelectSeq(obs, ObsHasRegion)

Duration(seg) == seg.end - seg.start

\* Maximal runs of consecutive identical non-empty observations
IsRunStart(st, i) == st[i].text # NoText /\ (i = 1 \/ st[i - 1].text # st[i].text)
RunEnd(st, i) ==
    CHOOSE j \in i..Len(st) :
        /\ \A k \in i..j : st[k].text = st[i].text
        /\ j = Len(st) \/ st[j + 1].text # st[i].text
RECURSIVE RunsFrom(_, _)
RunsFrom(st, i) ==
    IF i > Len(st) THEN <<>>
    ELSE (IF IsRunStart(st, i)
          THEN <<[text |-> st[i].text, start |-> st[i].t, end |-> st[RunEnd(st, i)].t]>>
          ELSE <<>>) \o RunsFrom(st, i + 1)
Runs(st) == RunsFrom(st, 1)

\* Reading a time "H..H:MM:SS,mmm" back to milliseconds
DigitVal(c) == CHOOSE d \in 0..9 : Digits[d + 1] = c
RECURSIVE NumVal(_)
NumVal(str) ==
    IF str = <<>> THEN 0
    ELSE NumVal(SubSeq(str, 1, Len(str) - 1)) * 10 + DigitVal(str[Len(str)])
SrtToMs(str) ==
    LET n == Len(str)
    IN  ((NumVal(SubSeq(str, 1, n - 10)) * 60 + NumVal(SubSeq(str, n - 8, n - 7))) * 60
          + NumVal(SubSeq(str, n - 5, n - 4))) * 1000 + NumVal(SubSeq(str, n - 2, n))

IsDigit(c) == \E d \in 1..10 : Digits[d] = c

\* The file holds a block for segment seg
InFile(seg) ==
    \E i \in 1..Len(file.blocks) :
        /\ file.blocks[i].text = seg.text
        /\ SrtToMs(file.blocks[i].start) = seg.start
        /\ SrtToMs(file.blocks[i].end) = seg.end

IsLong(seg) == seg.end - seg.start >= 100
Survivors == SelectSeq(subtitles, IsLong)

\* ------------------------------------------------------------------
\* Properties
\* ------------------------------------------------------------------

\* C1: a run during which stop() arrived ends without having written the
\* output file and without having emitted the completion signal.
C1_CancelledRunLeavesNoOutput ==
    (pc = "done" /\ ~is_running) => (FileUntouched /\ ~HasEmitted("finished"))

\* C2: once the cancelled worker has returned and every queued signal has been
\* handled, the UI is idle again (start and add-video enabled, cancel disabled).
C2_CancelReturnsUiToIdle ==
    (~is_running /\ pc = "done" /\ signals = <<>>) => UIIdle

\* C3: a run that ended with the failure signal has not created, truncated or
\* partially written the output file; the file holds content written by the
\* run only when the complete filtered track was serialized.
C3_OutputAllOrNothing ==
    /\ HasEmitted("error") => FileUntouched
    /\ (pc = "done" /\ ~FileUntouched) =>
          (HasEmitted("finished") /\ Len(file.blocks) = Len(Survivors))

\* C4: a sample whose ROI clamps to an empty rectangle acts on the segment
\* builder exactly as an empty-text observation at that timestamp: an open
\* segment is closed and the builder has no open segment afterwards.
C4_DegenerateSampleClosesSegment ==
    [][ (pc = "sample" /\ Len(obs') = Len(obs) + 1 /\ ~obs'[Len(obs')].region) =>
          ( /\ current_sub' = EmptySub
            /\ subtitles' = IF current_sub.text # NoText
                            THEN Append(subtitles, current_sub) ELSE subtitles ) ]_vars

\* C5: the segments produced before filtering are the maximal runs of
\* consecutive identical non-empty observations, in stream order, each with
\* the run's text, the first observation's timestamp as start and the last
\* observation's timestamp as end (inside the loop: together with the open
\* segment, which is the run still growing).
C5_SegmentsAreMaximalRuns ==
    /\ Flushed => subtitles = Runs(Observations)
    /\ InLoop => subtitles \o (IF current_sub.text # NoText THEN <<current_sub>> ELSE <<>>)
                   = Runs(Observations)

\* The merging example of the claim: A@0, A@100, A@200, empty@300 has given
\* exactly one segment A 0..200.
C5_Witness ==
    /\ Flushed
    /\ Observations = << [t |-> 0,   region |-> TRUE, text |-> TextA],
                         [t |-> 100, region |-> TRUE, text |-> TextA],
                         [t |-> 200, region |-> TRUE, text |-> TextA],
                         [t |-> 300, region |-> TRUE, text |-> NoText] >>
    /\ subtitles = << [text |-> TextA, start |-> 0, end |-> 200] >>

\* The step is the arrival of an observation (a sample with a non-empty crop)
ObservationStep == pc = "sample" /\ Len(obs') = Len(obs) + 1 /\ obs'[Len(obs')].region

\* C6: when an observation (t, s) with non-empty s different from the open
\* segment's text arrives, exactly one segment is appended, the previously open
\* one unchanged, and the open segment becomes (s, t, t); an open segment is
\* appended unchanged on the next change, disappearance or end of the loop.
C6_ChangeLaw ==
    [][ /\ ( /\ ObservationStep
             /\ current_sub.text # NoText
             /\ obs'[Len(obs')].text # NoText
             /\ obs'[Len(obs')].text # current_sub.text )
           => ( /\ subtitles' = Append(subtitles, current_sub)
                /\ current_sub' = [text  |-> obs'[Len(obs')].text,
                                   start |-> obs'[Len(obs')].t,
                                   end   |-> obs'[Len(obs')].t] )
        /\ ( /\ current_sub.text # NoText
             /\ \/ ObservationStep /\ obs'[Len(obs')].text # current_sub.text
                \/ pc = "after" /\ pc' = "check" )
           => subtitles' = Append(subtitles, current_sub) ]_vars

\* The change example: A then B has closed A and opened B with start = end.
C6_Witness ==
    /\ pc = "while"
    /\ Len(Observations) >= 2
    /\ Observations[Len(Observations) - 1].text = TextA
    /\ Observations[Len(Observations)].text = TextB
    /\ subtitles # <<>>
    /\ subtitles[Len(subtitles)].text = TextA
    /\ current_sub = [text |-> TextB, start |-> pos_msec, end |-> pos_msec]

\* C7 as stated: when the stream ended with a segment open and the run
\* completed, that segment is in the output file.
C7_TrailingSegmentInFile ==
    (HasEmitted("finished") /\ current_sub.text # NoText) => InFile(current_sub)

\* C7 as amended: after the loop an open segment is the last element of the
\* list handed to write_srt, and on a completed run it is in the file exactly
\* when it lasts at least 100 ms.
C7_TrailingFlush ==
    /\ (Flushed /\ current_sub.text # NoText) =>
          (subtitles # <<>> /\ subtitles[Len(subtitles)] = current_sub)
    /\ (HasEmitted("finished") /\ current_sub.text # NoText) =>
          (InFile(current_sub) <=> Duration(current_sub) >= 100)

\* A completed run whose stream ended on a non-empty observation, the open
\* segment written to the file.
C7_Witness ==
    /\ HasEmitted("finished")
    /\ current_sub.text # NoText
    /\ obs[Len(obs)].region /\ obs[Len(obs)].text = current_sub.text
    /\ InFile(current_sub)

\* C8: on a completed run the file holds exactly the segments with
\* end - start >= 100, in their order, with text, start and end unchanged.
C8_DurationFilter ==
    HasEmitted("finished") =>
        /\ Len(file.blocks) = Len(Survivors)
        /\ \A i \in 1..Len(Survivors) :
              /\ file.blocks[i].text = Survivors[i].text
              /\ SrtToMs(file.blocks[i].start) = Survivors[i].start
              /\ SrtToMs(file.blocks[i].end) = Survivors[i].end

\* A completed run with a segment of 99 ms dropped before a segment of exactly
\* 100 ms that was kept.
C8_Witness ==
    /\ HasEmitted("finished")
    /\ Len(subtitles) = 2
    /\ Duration(subtitles[1]) = 99
    /\ Duration(subtitles[2]) = 100
    /\ Len(file.blocks) = 1
    /\ file.blocks[1].text = subtitles[2].text

\* C9: the blocks of the file carry the indices 1, 2, ..., in order, and on a
\* completed run there are as many blocks as segments surviving the filter.
C9_SequentialIndices ==
    /\ ~FileUntouched => \A i \in 1..Len(file.blocks) : file.blocks[i].idx = i
    /\ HasEmitted("finished") =>
          Len(file.blocks) = Cardinality({i \in 1..Len(subtitles) : Duration(subtitles[i]) >= 100})

\* A completed run that dropped its first segment and wrote the second one,
\* under index 1.
C9_Witness ==
    /\ HasEmitted("finished")
    /\ Len(subtitles) = 2
    /\ Duration(subtitles[1]) < 100
    /\ Duration(subtitles[2]) >= 100
    /\ Len(file.blocks) = 1
    /\ file.blocks[1].idx = 1

\* HH:MM:SS,mmm with HH of at least two digits
WellFormedSrtTime(str, ms) ==
    LET n == Len(str)
    IN  /\ n >= 12
        /\ \A i \in 1..(n - 10) : IsDigit(str[i])
        /\ str[n - 9] = ":" /\ IsDigit(str[n - 8]) /\ IsDigit(str[n - 7])
        /\ str[n - 6] = ":" /\ IsDigit(str[n - 5]) /\ IsDigit(str[n - 4])
        /\ str[n - 3] = ","
        /\ SubSeq(str, n - 2, n) = ZPad(Dec(ms % 1000), 3)

\* C10: ms_to_srt_time(ms) has the form HH:MM:SS,mmm with HH at least two
\* digits, MM and SS two digits and mmm = ms mod 1000 in three digits; 0 gives
\* 00:00:00,000, 1500 gives 00:00:01,500 and 3661000 gives 01:01:01,000.
C10_SrtTimeFormat ==
    fmt_out # <<>> =>
        /\ WellFormedSrtTime(fmt_out, fmt_ms)
        /\ fmt_ms = 0 => fmt_out = <<"0","0",":","0","0",":","0","0",",","0","0","0">>
        /\ fmt_ms = 1500 => fmt_out = <<"0","0",":","0","0",":","0","1",",","5","0","0">>
        /\ fmt_ms = 3661000 => fmt_out = <<"0","1",":","0","1",":","0","1",",","0","0","0">>

\* C11: for ms >= 86400000 the result is HH:MM:SS,mmm with the hours not
\* wrapped at 24, HH = floor(ms / 3600000), and nothing else in the text.
C11_HoursUnbounded ==
    (fmt_out # <<>> /\ fmt_ms >= 86400000) =>
        fmt_out = Dec(fmt_ms \div 3600000) \o <<":">>
                  \o ZPad(Dec((fmt_ms \div 60000) % 60), 2) \o <<":">>
                  \o ZPad(Dec((fmt_ms \div 1000) % 60), 2) \o <<",">>
                  \o ZPad(Dec(fmt_ms % 1000), 3)

\* ------------------------------------------------------------------
\* Extractor harness: the text of one sample for every OCR result made of up
\* to MaxDetections detections
\* ------------------------------------------------------------------
MaxDetections == 3
DetTexts == {TextA, TextB, <<" ">>}
DetScores == { [kind |-> "num", val |-> 30], [kind |-> "num", val |-> 60],
               [kind |-> "num", val |-> 61], [kind |-> "num", val |-> 90],
               [kind |-> "str", val |-> 0], [kind |-> "missing", val |-> 0] }
Detections == { Det(t, sc.kind, sc.val) : t \in DetTexts, sc \in DetScores }
ExtractInputs == UNION { [1..n -> Detections] : n \in 0..MaxDetections }

ExtractInit ==
    /\ video_path = "" /\ le_save_path = ""
    /\ btn_run = FALSE /\ btn_add = TRUE /\ btn_cancel = FALSE
    /\ pbar = 0 /\ lbl_status = "ready"
    /\ pc = "none" /\ is_running = TRUE
    /\ roi = [x |-> 0, y |-> 0, w |-> 0, h |-> 0]
    /\ output_path = "" /\ cap_open = FALSE /\ total_frames = 0 /\ pos_msec = 0
    /\ frame_idx = 0 /\ processed_count = 0 /\ subtitles = <<>>
    /\ current_sub = EmptySub /\ w_i = 1 /\ w_idx = 1
    /\ file = NoFile /\ signals = <<>> /\ obs = <<>> /\ emitted = <<>>
    /\ fmt_ms = 0 /\ fmt_out = <<>>
    /\ ocr_in \in ExtractInputs
    /\ ocr_out = [called |-> FALSE, text |-> <<>>]

\* main.py:95-107 applied to ocr_in
ExtractCall ==
    /\ ~ocr_out.called
    /\ ocr_out' = [called |-> TRUE, text |-> DetectedText(ocr_in)]
    /\ UNCHANGED <<ui_vars, worker_vars, env_vars, fmt_ms, fmt_out, ocr_in>>

ExtractNext == ExtractCall

ExtractSpec == ExtractInit /\ [][ExtractNext]_vars

\* The detection has a numeric score strictly above 0.6
IsConfident(d) == d.kind = "num" /\ d.val > 60
ConfidentTexts(result) ==
    LET conf == SelectSeq(result, IsConfident)
    IN  [i \in 1..Len(conf) |-> conf[i].text]

\* C12: the text of a sample is the stripped, space-joined concatenation, in
\* engine order, of exactly the detections whose score is strictly above the
\* threshold; a score equal to the threshold, missing or not a number excludes
\* the detection, and the extraction still yields a text.
C12_ConfidenceThreshold ==
    ocr_out.called =>
        /\ ocr_out.text = Strip(Join(ConfidentTexts(ocr_in)))
        /\ (\A i \in 1..Len(ocr_in) : ~IsConfident(ocr_in[i])) => ocr_out.text = NoText
        /\ ocr_out.text # NoText => (ocr_out.text[1] # " " /\ ocr_out.text[Len(ocr_out.text)] # " ")

\* A result with a detection at exactly the threshold, one with a non-numeric
\* score and one above the threshold: only the last one is the text.
C12_Witness ==
    /\ ocr_out.called
    /\ ocr_in = <<Det(TextA, "num", 60), Det(TextA, "str", 0), Det(TextB, "num", 61)>>
    /\ ocr_out.text = TextB

\* C13: an output path that cannot be written is reported before any work:
\* when open() of the output path fails, no frame has been sampled and no OCR
\* has been performed.
C13_ConfigErrorBeforeWork ==
    [][ (pc = "open" /\ pc' = "done") => (processed_count = 0 /\ obs = <<>>) ]_vars

\* run() has returned at main.py:157: it observed the cancellation and emitted
\* no terminal signal
ReturnedCancelled ==
    pc = "done" /\ ~is_running /\ ~HasEmitted("error") /\ ~HasEmitted("finished")

\* C14: when a run that observed the cancellation has terminated, the video
\* handle it opened has been released.
C14_CancelReleasesHandle ==
    ReturnedCancelled => ~cap_open

\* A run cancelled in the middle of the frame loop, after it had processed a
\* sample, has terminated with the handle released.
C14_Witness ==
    /\ ReturnedCancelled
    /\ processed_count >= 1
    /\ frame_idx < MaxFrames
    /\ ~cap_open

\* C15: every progress message carries a percentage in the range 0..100.
C15_PercentInRange ==
    \A i \in 1..Len(signals) :
        signals[i].kind = "progress" => signals[i].val \in 0..100

\* C16: the closed segments, and the blocks of the file, are ordered by time:
\* start is non-decreasing from one to the next and each one ends strictly
\* before the next one starts.
C16_OrderedByTime ==
    /\ \A i \in 1..(Len(subtitles) - 1) :
          /\ subtitles[i].start <= subtitles[i + 1].start
          /\ subtitles[i].end < subtitles[i + 1].start
    /\ ~FileUntouched =>
          \A i \in 1..(Len(file.blocks) - 1) :
              /\ SrtToMs(file.blocks[i].start) <= SrtToMs(file.blocks[i + 1].start)
              /\ SrtToMs(file.blocks[i].end) < SrtToMs(file.blocks[i + 1].start)

\* A completed run that wrote two segments, each seen in two samples.
C16_Witness ==
    /\ HasEmitted("finished")
    /\ Len(subtitles) = 2
    /\ Len(file.blocks) = 2
    /\ subtitles[1].end > subtitles[1].start
    /\ subtitles[2].start > subtitles[1].end

HasOpenSegment == current_sub.text # NoText

\* C17: every segment, open or closed, has a non-empty text and end >= start;
\* the builder state with an empty text is exactly "no open segment" and is
\* never in the closed list; at most one segment is open: inside the loop the
\* segments begun so far are the closed ones plus the open one, if any, which
\* is not in the closed list yet.
C17_SegmentInvariant ==
    /\ \A i \in 1..Len(subtitles) :
          subtitles[i].text # NoText /\ subtitles[i].end >= subtitles[i].start
    /\ HasOpenSegment => current_sub.end >= current_sub.start
    /\ ~HasOpenSegment => current_sub = EmptySub
    /\ InLoop =>
          /\ Len(Runs(Observations)) = Len(subtitles) + (IF HasOpenSegment THEN 1 ELSE 0)
          /\ \A i \in 1..Len(subtitles) : subtitles[i] # current_sub

\* Inside the loop, a closed segment and an open one that has been extended.
C17_Witness ==
    /\ pc = "while"
    /\ Len(subtitles) = 1
    /\ HasOpenSegment
    /\ current_sub.end > current_sub.start

\* C18: the closed list is append-only: no step removes, reorders or changes
\* a segment that is in the list.
C18_AppendOnly ==
    [][ /\ Len(subtitles') >= Len(subtitles)
        /\ \A i \in 1..Len(subtitles) : subtitles'[i] = subtitles[i] ]_vars

\* The open segment has just been extended while an earlier, extended segment
\* is in the list.
C18_Witness ==
    /\ pc = "while"
    /\ Len(subtitles) = 1
    /\ subtitles[1].end > subtitles[1].start
    /\ HasOpenSegment
    /\ current_sub.end = pos_msec
    /\ current_sub.start < pos_msec

IsTerminal(kind) == kind \in {"finished", "error"}

TerminalCount == Cardinality({ i \in 1..Len(emitted) : IsTerminal(emitted[i]) })

\* Position of the worker in run(), as a number that every step of the
\* worker makes smaller
RunRank ==
    LET B == MaxFrames + 2
    IN  CASE pc = "done"   -> 0
          [] pc = "write"  -> B - w_i
          [] pc = "open"   -> B + 1
          [] pc = "check"  -> B + 2
          [] pc = "after"  -> B + 3
          [] pc = "sample" -> B + 4 + 3 * (MaxFrames - frame_idx) + 1
          [] pc = "read"   -> B + 4 + 3 * (MaxFrames - frame_idx) + 2
          [] pc = "while"  -> B + 4 + 3 * (MaxFrames - frame_idx) + 3
          [] OTHER         -> B + 4 + 3 * MaxFrames + 4

C19_OneTerminalSignal ==
    /\ TerminalCount <= 1
    /\ TerminalCount = 1 => (pc = "done" /\ IsTerminal(emitted[Len(emitted)]))
    /\ (pc = "done" /\ is_running) => TerminalCount = 1
    /\ HasEmitted("finished") =>
          /\ file.exists
          /\ w_i = Len(subtitles) + 1
          /\ Len(file.blocks) = Len(Survivors)
          /\ \A k \in 1..Len(Survivors) : file.blocks[k] = Block(k, Survivors[k])

\* C19: a run over a finite video terminates and, unless cancelled, emits
\* exactly one terminal signal: finished only once the file holds every block,
\* or error; never both, and nothing is emitted after the terminal signal.
\* Termination: a started worker reaches the end of run(); the worker can
\* always take a step until then, and each of its steps lowers RunRank.
C19_TerminatesWithOneSignal ==
    /\ []C19_OneTerminalSignal
    /\ [](isRunning => RunRank > 0 /\ ENABLED WorkerNext)
    /\ [][ (isRunning /\ <<pc, w_i>>' # <<pc, w_i>>) => RunRank' < RunRank ]_vars
    /\ [][ TerminalCount = 1 => emitted' = emitted ]_vars

\* Termination as a temporal property, under FairSpec
RunEventuallyOver == <>[](~isRunning)

\* A run that was not cancelled is over: progress was reported, the file has
\* a block and completion is the last signal.
C19_Witness ==
    /\ pc = "done"
    /\ is_running
    /\ HasEmitted("progress")
    /\ emitted[Len(emitted)] = "finished"
    /\ Len(file.blocks) >= 1

\* C20: while the frames read do not exceed the reported frame count N >= 1,
\* the samples processed do not exceed floor(N / skip_frames), and no progress
\* report carries a negative number of remaining samples (so the estimated
\* remaining time is never negative).
C20_RemainingNeverNegative ==
    (total_frames >= 1 /\ frame_idx <= total_frames) =>
        /\ processed_count <= total_frames \div skip_frames
        /\ \A i \in 1..Len(signals) :
              signals[i].kind = "progress" => signals[i].remain >= 0

\* C21: when the worker has terminated with the failure signal, the video
\* handle is not open any more (it was released, or it was never opened).
C21_FailureReleasesHandle ==
    (pc = "done" /\ HasEmitted("error")) => ~cap_open

====
